---- MODULE Spec2Model ----
(***************************************************************************)
(* A model of the components of marknotton/helpers:                        *)
(*   - MutationObserverHelper (src/unnamed/part_003): the module-level     *)
(*     registry `observers`, the closures each call creates, the native    *)
(*     MutationObserver callback and the returned unobserve method         *)
(*     (SpecObserver, SpecRegistry);                                       *)
(*   - Details (src/Details.ts): the accordion widget, its animations,     *)
(*     deferred animation frames and the delayed sibling capture           *)
(*     (SpecDetails for a group of sections, SpecSection for one);         *)
(*   - the custom property functions (src/unnamed/part_002, SpecCustom);   *)
(*   - cloneAttributes (src/unnamed/part_001, SpecClone);                  *)
(*   - ManagedResizeObserver and ManagedMutationObserver                   *)
(*     (src/unnamed/part_000, SpecManaged);                                *)
(*   - Scroll.to (src/Scroll.ts, SpecScroll and SpecScrollFair).           *)
(***************************************************************************)
EXTENDS Integers, Sequences, FiniteSets, TLC

\* ------------------------------------------------------------------ bounds
\* How many times MutationObserverHelper is called in one run of SpecObserver.
MaxHandles == 2
\* How many times it is called in one run of SpecRegistry.
MaxRegistryHandles == 3
\* How many single-node records one mutation batch holds at most.
MaxBatch == 2
\* How many accordion sections share the parent.
NumSections == 2
\* How many requestAnimationFrame callbacks wait for the next frame at most.
MaxFrames == 2
\* How many cancel events of one section wait to be dispatched at most.
MaxCancels == 1
\* How many arguments follow the target in a getCustomProperty call at most.
MaxProperties == 3
\* How many attributes the element cloneAttributes copies from has at most.
MaxAttrs == 3
\* The longest duration option of a Scroll.to call.
MaxDuration == 60
\* The height of the summary and of the content of every section.
HeaderHeight == 40
BodyHeight == 160

\* --------------------------------------------------------------- universe
Undefined == "undefined"
\* document.documentElement, the default observeElement.
DocumentElement == "documentElement"
Roots == {DocumentElement, "box"}
\* The roots whose subtree changes in SpecObserver; the other stays as it is.
MutatedRoots == {DocumentElement}
\* Two elements and one node that is no element (a text node).
Elements == {"div1", "span1"}
Nodes == Elements \cup {"text1"}

VARIABLES
  observers,   \* the registry: root -> ObserverInfo id, 0 when the root has no entry
  infos,       \* every ObserverInfo ever created, by id
  handles,     \* the closure of every MutationObserverHelper call, by id
  dom,         \* root -> the elements currently in its subtree
  released,    \* history: handle id -> has called unobserve() without argument
  fresh,       \* history: handle id -> no unobserve() on its root since it was made
  lastOp,      \* history: the operation that produced this state and its arguments
  emitted      \* history: the 'mutation' events dispatched by that operation, in order

obsVars == <<observers, infos, handles, dom, released, fresh, lastOp, emitted>>

VARIABLES
  details,     \* section -> the fields of its Details object and of its element
  running,     \* section -> the animations of its element that play, oldest first
  cancels,     \* section -> the cancel events queued for its cancelled animations
  frames,      \* the requestAnimationFrame callbacks waiting for the next frame
  timers,      \* the sections whose setTimeout(..., 100) has not fired yet
  armed,       \* history: a singleton section was activated while a sibling was open
  thrown,      \* where the last step threw a TypeError, "none" when it did not
  notified     \* the table-containers the last step called updateMetrics on, in order

detVars == <<details, running, cancels, frames, timers, armed, thrown, notified>>

VARIABLES
  style,       \* the custom properties of the target element: name -> text
  custom       \* history: the last getCustomProperty call and what it returned

customVars == <<style, custom>>

VARIABLES
  fromNode,    \* the attributes of the element cloneAttributes copies from
  toNode,      \* the attributes and class list of the element it copies to
  cloned       \* history: the last cloneAttributes call, toNode before it, what it threw

cloneVars == <<fromNode, toNode, cloned>>

VARIABLES
  managed,     \* a ManagedResizeObserver and a ManagedMutationObserver
  nativeCalls  \* history: the calls the last operation made on a native observer

managedVars == <<managed, nativeCalls>>

VARIABLES
  scroll       \* the Scroll.to call in progress

scrollVars == <<scroll>>

utilVars == <<customVars, cloneVars, managedVars, scrollVars>>

vars == <<obsVars, detVars, utilVars>>

\* lastOp before any operation; every operation fills the fields it has.
\* `given` is the autoUnobserve option as passed.
NoOp == [kind |-> "init", handle |-> 0, el |-> Undefined, given |-> Undefined]

\* ---------------------------------------------------------------- helpers
\* node instanceof HTMLElement || node instanceof SVGElement
IsElement(node) == node \in Elements

\* options.observeElement || document.documentElement
ObserveElementOf(opt) == IF opt = Undefined THEN DocumentElement ELSE opt

\* The values a caller can give for options.autoUnobserve.
AutoUnobserveOptions == {"true", "false", Undefined}

\* options.autoUnobserve ?? false
AutoUnobserveOf(opt) == IF opt = Undefined THEN FALSE ELSE opt = "true"

\* Mutant: the lookup never finds an entry.
ObserversGetNothing(observeElement) == 0

\* observers.get(observeElement): 0 stands for undefined.
ObserversGet(observeElement) == observers[observeElement]

\* new CustomEvent('mutation', {detail: {type, element}}) dispatched on the
\* observeElement of the closure that owns the ObserverInfo `id`.
TriggerEvent(type, node, id, root) ==
  [type |-> type, element |-> node, target |-> root, by |-> id]

\* Mutant: confirm records the element and dispatches nothing.
ConfirmClosureSilent(st, id, el) ==
  [st EXCEPT !.info.confirmedElements = @ \cup {el},
             !.info.pending = @ \ {el}]

\* The confirm closure handed to the filter callback:
\*   observerInfo?.confirmedElements.add(el); triggerEvent('added', el)
\* `st` is [info, events, calls]: the ObserverInfo and what the handler has
\* dispatched and called so far.
ConfirmClosure(st, id, el) ==
  [st EXCEPT !.info.confirmedElements = @ \cup {el},
             !.info.pending = @ \ {el},
             !.events = Append(@, TriggerEvent("added", el, id, st.info.root))]

\* One node of mutation.addedNodes. rec.reaction is what the filter callback
\* does with the element when it is called: "sync" calls confirm at once,
\* "defer" keeps the confirm closure for later, "ignore" never confirms.
AddedNode(st, id, rec) ==
  IF IsElement(rec.node) /\ rec.node \notin st.info.confirmedElements
  THEN LET offered == [st EXCEPT !.calls =
                         Append(@, [handle |-> st.info.creator, element |-> rec.node])]
       IN CASE rec.reaction = "sync"  -> ConfirmClosure(offered, id, rec.node)
            [] rec.reaction = "defer" -> [offered EXCEPT !.info.pending = @ \cup {rec.node}]
            [] OTHER                  -> offered
  ELSE st

\* Mutant: a removed element is reported and stays confirmed.
RemovedNodeKeeps(st, id, rec) ==
  IF IsElement(rec.node) /\ rec.node \in st.info.confirmedElements
  THEN [st EXCEPT !.events = Append(@, TriggerEvent("deleted", rec.node, id, st.info.root)),
                  !.info.connected = IF handles[st.info.creator].autoUnobserve
                                     THEN FALSE ELSE @]
  ELSE st

\* Mutant: autoUnobserve is never acted on.
RemovedNodeStaysConnected(st, id, rec) ==
  IF IsElement(rec.node) /\ rec.node \in st.info.confirmedElements
  THEN [st EXCEPT !.info.confirmedElements = @ \ {rec.node},
                  !.events = Append(@, TriggerEvent("deleted", rec.node, id, st.info.root))]
  ELSE st

\* One node of mutation.removedNodes. autoUnobserve is the creator's option.
RemovedNode(st, id, rec) ==
  IF IsElement(rec.node) /\ rec.node \in st.info.confirmedElements
  THEN [st EXCEPT !.info.confirmedElements = @ \ {rec.node},
                  !.events = Append(@, TriggerEvent("deleted", rec.node, id, st.info.root)),
                  !.info.connected = IF handles[st.info.creator].autoUnobserve
                                     THEN FALSE ELSE @]
  ELSE st

\* The MutationObserver callback: for (const mutation of mutationsList) ...
RECURSIVE HandleMutations(_, _, _)
HandleMutations(st, id, batch) ==
  IF batch = <<>> THEN st
  ELSE LET rec == Head(batch)
           nxt == IF rec.type = "add" THEN AddedNode(st, id, rec)
                                      ELSE RemovedNode(st, id, rec)
       IN HandleMutations(nxt, id, Tail(batch))

\* --------------------------------------------------------- mutation input
Records ==
  [type : {"add"}, node : Elements, reaction : {"sync", "defer", "ignore"}]
    \cup [type : {"add"}, node : Nodes \ Elements, reaction : {"ignore"}]
    \cup [type : {"remove"}, node : Nodes, reaction : {"ignore"}]

Batches == UNION {[1..n -> Records] : n \in 1..MaxBatch}

\* The elements of the subtree after the records of a batch, and whether the
\* batch can happen: an element is added only when absent and removed only
\* when present (text nodes come and go freely).
RECURSIVE DomAfter(_, _)
DomAfter(d, batch) ==
  IF batch = <<>> THEN d
  ELSE LET rec == Head(batch)
       IN DomAfter(IF ~IsElement(rec.node) THEN d
                   ELSE IF rec.type = "add" THEN d \cup {rec.node} ELSE d \ {rec.node},
                   Tail(batch))

RECURSIVE CanHappen(_, _)
CanHappen(d, batch) ==
  IF batch = <<>> THEN TRUE
  ELSE LET rec == Head(batch)
       IN /\ \/ ~IsElement(rec.node)
             \/ IF rec.type = "add" THEN rec.node \notin d ELSE rec.node \in d
          /\ CanHappen(DomAfter(d, <<rec>>), Tail(batch))

\* The observers a batch of `root` is delivered to, in creation order.
Receivers(root) ==
  {id \in DOMAIN infos : infos[id].root = root /\ infos[id].connected}

RECURSIVE Deliver(_, _, _, _)
\* Runs the callback of every receiver from `id` on; acc is
\* [infos, events, calls].
Deliver(acc, id, to, batch) ==
  IF id > Len(infos) THEN acc
  ELSE IF id \notin to THEN Deliver(acc, id + 1, to, batch)
  ELSE LET st == HandleMutations(
                   [info |-> acc.infos[id], events |-> acc.events, calls |-> acc.calls],
                   id, batch)
       IN Deliver([infos |-> [acc.infos EXCEPT ![id] = st.info],
                   events |-> st.events, calls |-> st.calls], id + 1, to, batch)

\* What delivering `batch` to the connected observers of `root` leaves:
\* [infos, events, calls].
Delivered(root, batch) ==
  Deliver([infos |-> infos, events |-> <<>>, calls |-> <<>>], 1, Receivers(root), batch)

\* =================================================== custom properties
\* A CSS text is modelled by its parts: leading or trailing white space
\* (padded), a leading decimal integer (hasNum, num) and what follows it
\* (suffix). "200px" is [padded |-> FALSE, hasNum |-> TRUE, num |-> 200,
\* suffix |-> "px"].
Text(padded, hasNum, num, suffix) ==
  [padded |-> padded, hasNum |-> hasNum, num |-> num, suffix |-> suffix]
EmptyText == Text(FALSE, FALSE, 0, "")

\* const ValidCssUnits
ValidCssUnits == {"em", "ex", "ch", "rem", "vw", "vh", "vmin", "vmax",
                  "cm", "mm", "in", "px", "pt", "pc"}

\* The custom property names of the model and the texts they take: '200px',
\* ' 200px', '233', '2em', '50%', 'red', 'em' and '' (not set).
Names == {"nav-bar-height", "side-bar-width"}
StyleTexts == {Text(FALSE, TRUE, 200, "px"), Text(TRUE, TRUE, 200, "px"),
               Text(FALSE, TRUE, 233, ""), Text(FALSE, TRUE, 2, "em"),
               Text(FALSE, TRUE, 50, "%"), Text(FALSE, FALSE, 0, "red"),
               Text(FALSE, FALSE, 0, "em"), EmptyText}

\* JavaScript values: a string, a number or NaN.
JsString(t) == [type |-> "string", text |-> t, num |-> 0]
JsNumber(n) == [type |-> "number", text |-> EmptyText, num |-> n]
NaN == [type |-> "NaN", text |-> EmptyText, num |-> 0]

\* String.prototype.trim
Trim(t) == [t EXCEPT !.padded = FALSE]

\* units.find(unit => value.endsWith(unit))
EndsWithUnit(t) == ~t.padded /\ t.suffix \in ValidCssUnits

\* Number(parseFloat(value).toFixed(4)), for the integers of the model.
ParseFloat(t) == IF t.hasNum THEN JsNumber(t.num) ELSE NaN

\* parseCssUnits(value)
ParseCssUnits(t) == IF EndsWithUnit(t) THEN ParseFloat(t) ELSE JsString(t)

\* /^-?\d+$/.test(value)
IsInteger(t) == ~t.padded /\ t.hasNum /\ t.suffix = ""

\* An argument of getCustomProperty: `true`, or a property name with or
\* without the leading '--'.
TrueArg == [isFlag |-> TRUE, prefixed |-> FALSE, name |-> ""]
NameArgs == [isFlag : {FALSE}, prefixed : BOOLEAN, name : Names]
Args == NameArgs \cup {TrueArg}
PropertyLists == UNION {[1..n -> Args] : n \in 0..MaxProperties}

\* `--${property.replace(/^--/g, '')}`: the property an argument names.
CssName(property) == property.name

\* The body of the forEach of getCustomProperty for one property, up to the
\* assignment: the value read, converted.
ReadProperty(st, property, shouldParseCssUnits) ==
  LET trimmed == Trim(st[CssName(property)])
      value == IF IsInteger(trimmed) THEN JsNumber(trimmed.num) ELSE JsString(trimmed)
  IN IF shouldParseCssUnits /\ value.type = "string"
     THEN ParseCssUnits(value.text)
     ELSE value

\* The order-preserving filter((e) => typeof e === 'string').
RECURSIVE PropertyNames(_)
PropertyNames(properties) ==
  IF properties = <<>> THEN <<>>
  ELSE IF Head(properties).isFlag THEN PropertyNames(Tail(properties))
  ELSE <<Head(properties)>> \o PropertyNames(Tail(properties))

\* What getCustomProperty returns: a string or number (isObject FALSE, in
\* value) or an object (isObject TRUE, its properties in entries).
EmptyObject == [isObject |-> TRUE, value |-> JsString(EmptyText),
                entries |-> [k \in {} |-> NaN]]
EmptyString == [isObject |-> FALSE, value |-> JsString(EmptyText),
                entries |-> [k \in {} |-> NaN]]

\* if (typeof result === 'object' && result !== null) result[property] = value
AssignProperty(result, property, value) ==
  IF result.isObject
  THEN [result EXCEPT !.entries =
          [k \in DOMAIN @ \cup {property} |-> IF k = property THEN value ELSE @[k]]]
  ELSE result

RECURSIVE ForEachProperty(_, _, _, _)
ForEachProperty(st, names, shouldParseCssUnits, result) ==
  IF names = <<>> THEN result
  ELSE ForEachProperty(st, Tail(names), shouldParseCssUnits,
         AssignProperty(result, Head(names),
                        ReadProperty(st, Head(names), shouldParseCssUnits)))

\* getCustomProperty(target, ...properties)
GetCustomPropertyOf(st, properties) ==
  LET shouldParseCssUnits == \E i \in DOMAIN properties : properties[i] = TrueArg
      propertyNames == PropertyNames(properties)
      result == IF Len(propertyNames) = 1 THEN EmptyString ELSE EmptyObject
  IN ForEachProperty(st, propertyNames, shouldParseCssUnits, result)

NoCall == [made |-> FALSE, properties |-> <<>>, result |-> EmptyObject]

\* ====================================================== cloneAttributes
\* getAttribute of an attribute the element does not have.
Null == "null"
\* The attribute names of the model; `class` is the one that is merged.
PlainNames == {"id", "title"}
AttrNames == PlainNames \cup {"class"}
PlainValues == {"x", "y"}
\* The class attributes of fromNode as nodeValue.split(' ') sees them:
\* 'a', 'a b', 'b ' (a trailing space leaves an empty token) and ''.
ClassValues == {<<"a">>, <<"a", "b">>, <<"b", "">>, <<"">>}

\* An attribute of fromNode: its value for a plain attribute, its tokens for
\* class.
PlainAttr(name, value) == [name |-> name, value |-> value, tokens |-> <<>>]
ClassAttr(tokens) == [name |-> "class", value |-> "", tokens |-> tokens]
Attrs == {PlainAttr(n, v) : n \in PlainNames, v \in PlainValues}
           \cup {ClassAttr(t) : t \in ClassValues}

\* fromNode.attributes: attributes of distinct names, in document order.
AttrLists ==
  {l \in UNION {[1..n -> Attrs] : n \in 0..MaxAttrs} :
     \A i, j \in DOMAIN l : i # j => l[i].name # l[j].name}

\* toNode: its plain attributes and its class list.
ToNodes == [attrs : [PlainNames -> PlainValues \cup {Null}],
            classes : SUBSET {"a", "c"}]

\* The exclusions argument: left out, one name, or an array of names.
ExclusionInputs ==
  {[kind |-> "undefined", names |-> {}]}
    \cup {[kind |-> "string", names |-> {n}] : n \in AttrNames}
    \cup {[kind |-> "array", names |-> S] : S \in SUBSET AttrNames}

\* The exclusions after the two typeof checks: always an array.
NormalizedExclusions(exclusions) ==
  IF exclusions.kind = "undefined" THEN {} ELSE exclusions.names

\* toNode.classList.add(...tokens): an empty token makes it throw a
\* SyntaxError and add nothing.
ClassListAdd(st, tokens) ==
  IF \E i \in DOMAIN tokens : tokens[i] = ""
  THEN [st EXCEPT !.thrown = "SyntaxError"]
  ELSE [st EXCEPT !.to.classes = @ \cup {tokens[i] : i \in DOMAIN tokens}]

\* The forEach callback of cloneAttributes for one attribute.
CloneAttr(st, attr, exclusions) ==
  IF attr.name \in exclusions THEN st
  ELSE IF attr.name = "class" THEN ClassListAdd(st, attr.tokens)
  ELSE [st EXCEPT !.to.attrs[attr.name] = attr.value]

\* Array.from(fromNode.attributes).forEach(...): an exception ends the loop.
RECURSIVE ForEachAttr(_, _, _)
ForEachAttr(st, attributes, exclusions) ==
  IF attributes = <<>> \/ st.thrown # "none" THEN st
  ELSE ForEachAttr(CloneAttr(st, Head(attributes), exclusions),
                   Tail(attributes), exclusions)

\* cloneAttributes(fromNode, toNode, exclusions): toNode afterwards and what
\* was thrown.
CloneAttributesOf(from, to, exclusions) ==
  ForEachAttr([to |-> to, thrown |-> "none"], from,
              NormalizedExclusions(exclusions))

NoClone == [made |-> FALSE, before |-> [attrs |-> [n \in PlainNames |-> Null],
                                        classes |-> {}],
            exclusions |-> [kind |-> "undefined", names |-> {}],
            thrown |-> "none"]


\* ===================================================== managed observers
\* A wrapper that observes nothing: its tracked Set, in insertion order, and
\* the targets its native observer observes.
NoWrapper == [observedElements |-> <<>>, native |-> {}]
NoManaged == [resize |-> NoWrapper, mutation |-> NoWrapper]

\* The elements handed to the wrappers.
Targets == {"e1", "e2", "e3"}

\* new Set(): the elements of a Set in insertion order.
SetHas(set, element) == \E i \in DOMAIN set : set[i] = element
SetAdd(set, element) == IF SetHas(set, element) THEN set ELSE Append(set, element)
RECURSIVE SetDelete(_, _)
SetDelete(set, element) ==
  IF set = <<>> THEN <<>>
  ELSE IF Head(set) = element THEN Tail(set)
  ELSE <<Head(set)>> \o SetDelete(Tail(set), element)

\* A call on the native observer of a wrapper, as recorded in nativeCalls.
NativeCall(method, element) == [method |-> method, element |-> element]

\* A wrapper during an operation: its fields and the native calls made so far.
Running(w) == [w |-> w, calls |-> <<>>]

\* this.observer.observe(element[, options])
NativeObserve(st, element) ==
  [st EXCEPT !.w.native = @ \cup {element},
             !.calls = Append(@, NativeCall("observe", element))]

\* this.observer.unobserve(element)
NativeUnobserve(st, element) ==
  [st EXCEPT !.w.native = @ \ {element},
             !.calls = Append(@, NativeCall("unobserve", element))]

\* this.observer.disconnect()
NativeDisconnect(st) ==
  [st EXCEPT !.w.native = {},
             !.calls = Append(@, NativeCall("disconnect", ""))]

\* ManagedResizeObserver.observe(element)
ResizeObserveOf(w, element) ==
  IF ~SetHas(w.observedElements, element)
  THEN [NativeObserve(Running(w), element)
          EXCEPT !.w.observedElements = SetAdd(@, element)]
  ELSE Running(w)

\* ManagedResizeObserver.unobserve(element)
ResizeUnobserveOf(w, element) ==
  IF SetHas(w.observedElements, element)
  THEN [NativeUnobserve(Running(w), element)
          EXCEPT !.w.observedElements = SetDelete(@, element)]
  ELSE Running(w)

\* ManagedResizeObserver.disconnect()
ResizeDisconnectOf(w) ==
  [NativeDisconnect(Running(w)) EXCEPT !.w.observedElements = <<>>]

\* ManagedMutationObserver.observe(element)
MutationObserveOf(w, element) ==
  IF ~SetHas(w.observedElements, element)
  THEN [NativeObserve(Running(w), element)
          EXCEPT !.w.observedElements = SetAdd(@, element)]
  ELSE Running(w)

\* this.observedElements.forEach((elem) => this.observer.observe(elem, ...))
RECURSIVE ReObserve(_, _)
ReObserve(st, elems) ==
  IF elems = <<>> THEN st
  ELSE ReObserve(NativeObserve(st, Head(elems)), Tail(elems))

\* Mutant: unobserve disconnects and forgets to observe the remaining nodes.
MutationUnobserveWithoutReObserve(w, element) ==
  IF SetHas(w.observedElements, element)
  THEN [NativeDisconnect(Running(w))
          EXCEPT !.w.observedElements = SetDelete(@, element)]
  ELSE Running(w)

\* ManagedMutationObserver.unobserve(element)
MutationUnobserveOf(w, element) ==
  IF SetHas(w.observedElements, element)
  THEN LET st == [NativeDisconnect(Running(w))
                    EXCEPT !.w.observedElements = SetDelete(@, element)]
       IN ReObserve(st, st.w.observedElements)
  ELSE Running(w)

\* ManagedMutationObserver.disconnect()
MutationDisconnectOf(w) ==
  [NativeDisconnect(Running(w)) EXCEPT !.w.observedElements = <<>>]

\* ============================================================== Scroll.to
\* let duration = options.duration || 500
DefaultDuration == 500
\* let increment = 20
Increment == 20

\* options.duration: left out, or a number of the model.
NoDuration == [given |-> FALSE, value |-> 0]
DurationOptions ==
  {NoDuration} \cup {[given |-> TRUE, value |-> v] : v \in {d \in 0..MaxDuration : d % 10 = 0}}

\* let duration = options.duration || 500; if (options.duration === 0) duration = 0
DurationOf(option) ==
  LET duration == IF ~option.given \/ option.value = 0 THEN DefaultDuration
                  ELSE option.value
  IN IF option.given /\ option.value = 0 THEN 0 ELSE duration

\* A value written to container.scrollTop: startPosition plus the fraction
\* num / den of change, or a value that is not finite (Infinity, NaN).
Eased(num, den) == [finite |-> TRUE, num |-> num, den |-> den]
NonFinite == [finite |-> FALSE, num |-> 0, den |-> 1]

\* easeInOutQuad(t, startPosition, change, d): dividing by d / 2 = 0 leaves
\* no finite value.
EaseInOutQuad(t, d) ==
  IF d = 0 THEN NonFinite
  ELSE IF 2 * t < d THEN Eased(2 * t * t, d * d)
  ELSE Eased(d * d - (2 * t - d) * (2 * t - d) + 2 * d * (2 * t - d), 2 * d * d)

\* No Scroll.to call was made yet.
NoScroll == [called |-> FALSE, target |-> FALSE, duration |-> 0,
             hasCallback |-> FALSE, hasContainer |-> FALSE,
             currentTime |-> 0, timer |-> FALSE, resolved |-> FALSE,
             writes |-> 0, scrollTop |-> Eased(0, 1), callbacks |-> 0]

\* animateScroll() rescheduling itself once more when currentTime has reached
\* the duration.
AnimateScrollOneStepMore(sc) ==
  LET currentTime == sc.currentTime + Increment
      val == EaseInOutQuad(currentTime, sc.duration)
      sc1 == [sc EXCEPT !.currentTime = currentTime]
      sc2 == IF sc1.hasContainer
             THEN [sc1 EXCEPT !.scrollTop = val, !.writes = @ + 1]
             ELSE sc1
  IN IF currentTime <= sc2.duration
     THEN [sc2 EXCEPT !.timer = TRUE]
     ELSE [sc2 EXCEPT !.timer = FALSE,
                      !.resolved = TRUE,
                      !.callbacks = IF sc2.hasCallback THEN @ + 1 ELSE @]

\* animateScroll()
AnimateScroll(sc) ==
  LET currentTime == sc.currentTime + Increment
      val == EaseInOutQuad(currentTime, sc.duration)
      sc1 == [sc EXCEPT !.currentTime = currentTime]
      sc2 == IF sc1.hasContainer
             THEN [sc1 EXCEPT !.scrollTop = val, !.writes = @ + 1]
             ELSE sc1
  IN IF currentTime < sc2.duration
     THEN [sc2 EXCEPT !.timer = TRUE]
     ELSE [sc2 EXCEPT !.timer = FALSE,
                      !.resolved = TRUE,
                      !.callbacks = IF sc2.hasCallback THEN @ + 1 ELSE @]

\* Scroll.to(target, options): the state of the call when it returns.
ScrollToOf(target, durationOption, hasCallback, hasContainer) ==
  LET sc == [NoScroll EXCEPT !.called = TRUE, !.target = target]
  IN IF ~target THEN sc
     ELSE AnimateScroll([sc EXCEPT !.duration = DurationOf(durationOption),
                                   !.hasCallback = hasCallback,
                                   !.hasContainer = hasContainer])

\* ================================================================ Details
Sections == 1..NumSections
\* duration: instant ? 0 : 300
Duration == 300
\* this.el.style.height = '': no inline height.
NoHeight == 0
NoAnimation == [kind |-> "none", duration |-> 0, from |-> 0, to |-> 0]
\* The table-container elements under the content of a section, in document
\* order: TRUE for one whose scroll.updateMetrics can be called, FALSE for one
\* that has no such method.
TableSetups == {<<>>, <<TRUE>>, <<FALSE>>, <<TRUE, TRUE>>, <<TRUE, FALSE>>}

\* The module as loaded, on a page whose accordion sections stay untouched:
\* the registry is empty and nothing of Details is in flight.
InitObserver ==
  /\ observers = [r \in Roots |-> 0]
  /\ infos = <<>>
  /\ handles = <<>>
  /\ dom = [r \in Roots |-> {}]
  /\ released = <<>>
  /\ fresh = <<>>
  /\ lastOp = NoOp
  /\ emitted = <<>>
  /\ details = [s \in Sections |->
                  [open |-> FALSE, visible |-> FALSE, singleton |-> FALSE,
                   isClosing |-> FALSE, isExpanding |-> FALSE,
                   animation |-> NoAnimation, siblings |-> {},
                   height |-> NoHeight, overflow |-> FALSE,
                   hasContent |-> TRUE, tables |-> <<>>,
                   beforeFrame |-> FALSE, request |-> "none"]]
  /\ running = [s \in Sections |-> <<>>]
  /\ cancels = [s \in Sections |-> <<>>]
  /\ frames = <<>>
  /\ timers = {}
  /\ armed = FALSE
  /\ thrown = "none"
  /\ notified = <<>>
  /\ style = [n \in Names |-> EmptyText]
  /\ custom = NoCall
  /\ fromNode = <<>>
  /\ toNode = NoClone.before
  /\ cloned = NoClone
  /\ managed = NoManaged
  /\ nativeCalls = <<>>
  /\ scroll = NoScroll

\* The state the operations of Details read and write, as one value, at the
\* start of a step: nothing thrown, no table-container notified yet.
World == [details |-> details, running |-> running, cancels |-> cancels,
          frames |-> frames, thrown |-> "none", notified |-> <<>>]

\* The animation this.animation of s plays (it neither finished nor was
\* cancelled).
Playing(w, s) ==
  \E i \in DOMAIN w.running[s] : w.running[s][i] = w.details[s].animation

\* The height of a section that shows half of its content.
HalfOpen == HeaderHeight + (BodyHeight \div 2)

\* The height an animation in flight gives the element when it is read: one
\* height between the two ends, the half-open one when the animation passes
\* it, else the one it started from.
Mid(from, to) ==
  IF (from <= HalfOpen /\ HalfOpen <= to) \/ (to <= HalfOpen /\ HalfOpen <= from)
  THEN HalfOpen
  ELSE from

\* this.summary.offsetHeight
SummaryHeight(w, s) == HeaderHeight

\* this.content.offsetHeight: the content of a details element that is not
\* open is not rendered.
ContentHeight(w, s) == IF w.details[s].open THEN BodyHeight ELSE 0

\* this.el.offsetHeight: the height the animation in flight gives the
\* element, else its inline height, else the height of what it shows.
OffsetHeight(w, s) ==
  LET d == w.details[s]
  IN IF Playing(w, s) THEN Mid(d.animation.from, d.animation.to)
     ELSE IF d.height # NoHeight THEN d.height
     ELSE IF d.hasContent THEN SummaryHeight(w, s) + ContentHeight(w, s)
     ELSE SummaryHeight(w, s)

\* animation.cancel(): the animation stops playing and its cancel event is
\* queued (also for an animation that finished); the oncancel handler runs
\* when that event is dispatched.
CancelAnimation(w, s) ==
  LET a == w.details[s].animation
      at == {i \in DOMAIN w.running[s] : w.running[s][i] = a}
      last == CHOOSE i \in at : \A j \in at : j <= i
  IN IF at = {} THEN [w EXCEPT !.cancels[s] = Append(@, a.kind)]
     ELSE [w EXCEPT !.running[s] = [i \in 1..(Len(@) - 1) |->
                                      IF i < last THEN @[i] ELSE @[i + 1]],
                    !.cancels[s] = Append(@, a.kind)]

\* this.el.animate({height: [startHeight, endHeight]},
\*                 {duration: instant ? 0 : 300, ...})
\* beforeFrame: a frame callback requested earlier still waits; it runs
\* before the new animation can finish.
Animate(w, s, kind, instant, startHeight, endHeight) ==
  LET a == [kind |-> kind, duration |-> IF instant THEN 0 ELSE Duration,
            from |-> startHeight, to |-> endHeight]
  IN [w EXCEPT !.details[s].animation = a,
               !.details[s].beforeFrame = (w.frames # <<>>),
               !.running[s] = Append(@, a)]

\* Mutant: shrink starts its animation without cancelling the current one.
ShrinkWithoutCancel(w, s, instant) ==
  LET w1 == [w EXCEPT !.details[s].isClosing = TRUE,
                      !.details[s].request = "shrink"]
  IN Animate(w1, s, "closing", instant, OffsetHeight(w1, s), SummaryHeight(w1, s))

\* Details.shrink(instant); request records that the section was last asked
\* to close.
Shrink(w, s, instant) ==
  LET w1 == [w EXCEPT !.details[s].isClosing = TRUE,
                      !.details[s].request = "shrink"]
      startHeight == OffsetHeight(w1, s)
      endHeight == SummaryHeight(w1, s)
      w2 == IF w1.details[s].animation # NoAnimation THEN CancelAnimation(w1, s) ELSE w1
  IN Animate(w2, s, "closing", instant, startHeight, endHeight)

\* Details.expand(instant): this.content.offsetHeight throws a TypeError
\* when the constructor found no content element.
Expand(w, s, instant) ==
  LET w1 == [w EXCEPT !.details[s].isExpanding = TRUE]
      startHeight == OffsetHeight(w1, s)
      endHeight == SummaryHeight(w1, s) + ContentHeight(w1, s)
      w2 == IF w1.details[s].animation # NoAnimation THEN CancelAnimation(w1, s) ELSE w1
  IN IF ~w1.details[s].hasContent THEN [w1 EXCEPT !.thrown = "expand"]
     ELSE Animate(w2, s, "expanding", instant, startHeight, endHeight)

\* this.siblings.forEach(details => details.shrink?.(instant)), in the order
\* of the captured array.
RECURSIVE ShrinkAll(_, _, _)
ShrinkAll(w, todo, instant) ==
  IF todo = {} THEN w
  ELSE LET t == CHOOSE x \in todo : \A y \in todo : x <= y
       IN ShrinkAll(Shrink(w, t, instant), todo \ {t}, instant)

\* Details.open(instant); request records that the section was last asked
\* to open.
Open(w, s, instant) ==
  LET w1 == [w EXCEPT !.details[s].height = OffsetHeight(w, s),
                      !.details[s].open = TRUE,
                      !.details[s].request = "open",
                      !.frames = Append(@, [section |-> s, instant |-> instant])]
  IN IF w1.details[s].singleton /\ w1.details[s].siblings # {}
     THEN ShrinkAll(w1, w1.details[s].siblings, instant)
     ELSE w1

\* Details.onClick(e)
OnClick(w, s) ==
  LET w1 == [w EXCEPT !.details[s].overflow = TRUE]
      d == w1.details[s]
  IN IF d.isClosing \/ ~d.open THEN Open(w1, s, FALSE)
     ELSE IF d.isExpanding \/ d.open THEN Shrink(w1, s, FALSE)
     ELSE w1

\* Details.onAnimationFinish(open)
OnAnimationFinish(w, s, open) ==
  [w EXCEPT !.details[s].open = open,
            !.details[s].animation = NoAnimation,
            !.details[s].isClosing = FALSE,
            !.details[s].isExpanding = FALSE,
            !.details[s].visible = open,
            !.details[s].height = NoHeight,
            !.details[s].overflow = FALSE]

\* this.content.querySelectorAll('table-container').forEach(table =>
\*   table.scroll.updateMetrics()), from table k on: the first table without
\* the method throws a TypeError and ends the loop.
RECURSIVE UpdateMetrics(_, _, _)
UpdateMetrics(w, s, k) ==
  IF k > Len(w.details[s].tables) THEN w
  ELSE IF ~w.details[s].tables[k] THEN [w EXCEPT !.thrown = "onfinish"]
  ELSE UpdateMetrics([w EXCEPT !.notified = Append(@, [section |-> s, table |-> k])],
                     s, k + 1)

\* The onfinish handler of an expand animation.
OnExpandFinish(w, s) ==
  LET w1 == UpdateMetrics(w, s, 1)
  IN IF w1.thrown # "none" THEN w1 ELSE OnAnimationFinish(w1, s, TRUE)

\* The callbacks of one animation frame, in the order they were requested;
\* one that throws does not stop the next. No callback waits afterwards.
RECURSIVE RunFrames(_, _)
RunFrames(w, queue) ==
  IF queue = <<>>
  THEN [w EXCEPT !.frames = <<>>,
                 !.details = [s \in Sections |-> [@[s] EXCEPT !.beforeFrame = FALSE]]]
  ELSE RunFrames(Expand(w, Head(queue).section, Head(queue).instant), Tail(queue))

\* The sections of the parent with the tag of s, s itself left out.
SiblingsOf(s) == Sections \ {s}

\* The page as the script finds it: every section is a details.accordion, open
\* or not, with or without the singleton class, with a content element and no
\* table-container; every constructor has run. The observer helper is not
\* used.
InitDetails ==
  /\ observers = [r \in Roots |-> 0]
  /\ infos = <<>>
  /\ handles = <<>>
  /\ dom = [r \in Roots |-> {}]
  /\ released = <<>>
  /\ fresh = <<>>
  /\ lastOp = NoOp
  /\ emitted = <<>>
  /\ details \in [Sections ->
                    [open : BOOLEAN, visible : {FALSE}, singleton : BOOLEAN,
                     isClosing : {FALSE}, isExpanding : {FALSE},
                     animation : {NoAnimation}, siblings : {{}},
                     height : {NoHeight}, overflow : {FALSE},
                     hasContent : {TRUE}, tables : {<<>>},
                     beforeFrame : {FALSE}, request : {"none"}]]
  /\ running = [s \in Sections |-> <<>>]
  /\ cancels = [s \in Sections |-> <<>>]
  /\ frames = <<>>
  /\ timers = Sections
  /\ armed = FALSE
  /\ thrown = "none"
  /\ notified = <<>>
  /\ style = [n \in Names |-> EmptyText]
  /\ custom = NoCall
  /\ fromNode = <<>>
  /\ toNode = NoClone.before
  /\ cloned = NoClone
  /\ managed = NoManaged
  /\ nativeCalls = <<>>
  /\ scroll = NoScroll

\* The queues of w are within the bounds of the model.
Bounded(w) ==
  /\ Len(w.frames) <= MaxFrames
  /\ \A t \in Sections : Len(w.cancels[t]) <= MaxCancels

Commit(w) ==
  /\ details' = w.details
  /\ running' = w.running
  /\ cancels' = w.cancels
  /\ frames' = w.frames
  /\ thrown' = w.thrown
  /\ notified' = w.notified

\* A click on the summary of section s.
Click(s) ==
  /\ Bounded(OnClick(World, s))
  /\ Commit(OnClick(World, s))
  /\ armed' = (armed \/ (/\ details[s].isClosing \/ ~details[s].open
                        /\ details[s].singleton
                        /\ \E t \in SiblingsOf(s) : details[t].open))
  /\ UNCHANGED timers

\* The next animation frame: every waiting callback runs expand.
AnimationFrame ==
  /\ frames # <<>>
  /\ Bounded(RunFrames(World, frames))
  /\ Commit(RunFrames(World, frames))
  /\ UNCHANGED <<timers, armed>>

\* The setTimeout of the constructor of s fires: the siblings are captured.
\* Timers of equal delay fire in the order they were set.
CaptureSiblings(s) ==
  /\ s \in timers
  /\ \A t \in timers : s <= t
  /\ details' = [details EXCEPT ![s].siblings = SiblingsOf(s)]
  /\ timers' = timers \ {s}
  /\ thrown' = "none"
  /\ notified' = <<>>
  /\ UNCHANGED <<running, cancels, frames, armed>>

\* The animation at position i of section s finishes: its onfinish runs.
\* An animation outlasts the frame callbacks that waited when it started.
AnimationFinish(s, i) ==
  /\ i \in DOMAIN running[s]
  /\ ~details[s].beforeFrame
  /\ LET a == running[s][i]
         w == [World EXCEPT !.running[s] = [j \in 1..(Len(@) - 1) |->
                                              IF j < i THEN @[j] ELSE @[j + 1]]]
     IN Commit(IF a.kind = "expanding" THEN OnExpandFinish(w, s)
               ELSE OnAnimationFinish(w, s, FALSE))
  /\ UNCHANGED <<timers, armed>>

\* The oldest queued cancel event of section s is dispatched: oncancel runs.
CancelEvent(s) ==
  /\ cancels[s] # <<>>
  /\ details' = IF Head(cancels[s]) = "closing"
                THEN [details EXCEPT ![s].isClosing = FALSE]
                ELSE [details EXCEPT ![s].isExpanding = FALSE]
  /\ cancels' = [cancels EXCEPT ![s] = Tail(@)]
  /\ thrown' = "none"
  /\ notified' = <<>>
  /\ UNCHANGED <<running, frames, timers, armed>>

NextDetails ==
  \/ \E s \in Sections : Click(s) /\ UNCHANGED <<obsVars, utilVars>>
  \/ AnimationFrame /\ UNCHANGED <<obsVars, utilVars>>
  \/ \E s \in Sections : CaptureSiblings(s) /\ UNCHANGED <<obsVars, utilVars>>
  \/ \E s \in Sections, i \in 1..2 : AnimationFinish(s, i) /\ UNCHANGED <<obsVars, utilVars>>
  \/ \E s \in Sections : CancelEvent(s) /\ UNCHANGED <<obsVars, utilVars>>

\* --------------------------------------------------- one section, all ways
\* The section the calls of SpecSection are made on; what its siblings do to
\* it is a call of its el.shrink.
Focus == 1

\* The page as the script finds it, the sections closed or open, with or
\* without a content element, with any of the table-container setups.
InitSection ==
  /\ observers = [r \in Roots |-> 0]
  /\ infos = <<>>
  /\ handles = <<>>
  /\ dom = [r \in Roots |-> {}]
  /\ released = <<>>
  /\ fresh = <<>>
  /\ lastOp = NoOp
  /\ emitted = <<>>
  /\ details \in [Sections ->
                    [open : BOOLEAN, visible : {FALSE}, singleton : {FALSE},
                     isClosing : {FALSE}, isExpanding : {FALSE},
                     animation : {NoAnimation}, siblings : {{}},
                     height : {NoHeight}, overflow : {FALSE},
                     hasContent : BOOLEAN, tables : TableSetups,
                     beforeFrame : {FALSE}, request : {"none"}]]
  /\ \A s \in Sections : s # Focus => details[s] = details[Focus]
  /\ running = [s \in Sections |-> <<>>]
  /\ cancels = [s \in Sections |-> <<>>]
  /\ frames = <<>>
  /\ timers = Sections
  /\ armed = FALSE
  /\ thrown = "none"
  /\ notified = <<>>
  /\ style = [n \in Names |-> EmptyText]
  /\ custom = NoCall
  /\ fromNode = <<>>
  /\ toNode = NoClone.before
  /\ cloned = NoClone
  /\ managed = NoManaged
  /\ nativeCalls = <<>>
  /\ scroll = NoScroll

\* el.expand(instant)
ApiExpand(s, instant) ==
  /\ Bounded(Open(World, s, instant))
  /\ Commit(Open(World, s, instant))
  /\ UNCHANGED <<timers, armed>>

\* el.shrink(instant)
ApiShrink(s, instant) ==
  /\ Bounded(Shrink(World, s, instant))
  /\ Commit(Shrink(World, s, instant))
  /\ UNCHANGED <<timers, armed>>

NextSection ==
  \/ Click(Focus) /\ UNCHANGED <<obsVars, utilVars>>
  \/ \E instant \in BOOLEAN : ApiExpand(Focus, instant) /\ UNCHANGED <<obsVars, utilVars>>
  \/ \E instant \in BOOLEAN : ApiShrink(Focus, instant) /\ UNCHANGED <<obsVars, utilVars>>
  \/ AnimationFrame /\ UNCHANGED <<obsVars, utilVars>>
  \/ \E s \in Sections : CaptureSiblings(s) /\ UNCHANGED <<obsVars, utilVars>>
  \/ \E i \in 1..2 : AnimationFinish(Focus, i) /\ UNCHANGED <<obsVars, utilVars>>
  \/ CancelEvent(Focus) /\ UNCHANGED <<obsVars, utilVars>>

SpecSection == InitSection /\ [][NextSection]_vars

\* ---------------------------------------------------------------- actions
\* MutationObserverHelper(callback, options)
Subscribe(rootOpt, autoOpt) ==
  LET observeElement == ObserveElementOf(rootOpt)
      autoUnobserve == AutoUnobserveOf(autoOpt)
      found == ObserversGet(observeElement)
      h == Len(handles) + 1
      id == IF found = 0 THEN Len(infos) + 1 ELSE found
  IN /\ IF found = 0
        THEN /\ infos' = Append(infos, [root |-> observeElement,
                                        confirmedElements |-> {},
                                        pending |-> {},
                                        connected |-> TRUE,
                                        creator |-> h])
             /\ observers' = [observers EXCEPT ![observeElement] = id]
        ELSE UNCHANGED <<infos, observers>>
     /\ handles' = Append(handles, [observeElement |-> observeElement,
                                    autoUnobserve |-> autoUnobserve,
                                    observerInfo |-> id])
     /\ released' = Append(released, FALSE)
     /\ fresh' = Append(fresh, TRUE)
     /\ lastOp' = [NoOp EXCEPT !.kind = "subscribe", !.handle = h, !.given = autoOpt]
     /\ emitted' = <<>>
     /\ UNCHANGED dom

\* The host changes the subtree of `root` and delivers the batch to every
\* connected observer of that root.
Mutate(root, batch) ==
  /\ CanHappen(dom[root], batch)
  /\ LET res == Delivered(root, batch)
     IN /\ infos' = res.infos
        /\ emitted' = res.events
  /\ lastOp' = [NoOp EXCEPT !.kind = "mutate"]
  /\ dom' = [dom EXCEPT ![root] = DomAfter(@, batch)]
  /\ UNCHANGED <<observers, handles, released, fresh>>

\* A filter callback calls, later, the confirm closure it kept.
ConfirmLater(id, el) ==
  /\ id \in DOMAIN infos
  /\ el \in infos[id].pending
  /\ LET st == ConfirmClosure([info |-> infos[id], events |-> <<>>, calls |-> <<>>],
                              id, el)
     IN /\ infos' = [infos EXCEPT ![id] = st.info]
        /\ emitted' = st.events
  /\ lastOp' = [NoOp EXCEPT !.kind = "confirm"]
  /\ UNCHANGED <<observers, handles, dom, released, fresh>>

\* Mutant: unobserve(element) falls through to the disconnect of unobserve().
UnobserveElementDisconnects(h, el) ==
  /\ h \in DOMAIN handles
  /\ infos' = [infos EXCEPT ![handles[h].observerInfo].confirmedElements = @ \ {el},
                            ![handles[h].observerInfo].connected = FALSE]
  /\ lastOp' = [NoOp EXCEPT !.kind = "unobserveElement", !.handle = h, !.el = el]
  /\ emitted' = <<>>
  /\ UNCHANGED <<observers, handles, dom, released, fresh>>

\* handle.unobserve(element): observerInfo?.confirmedElements.delete(element)
UnobserveElement(h, el) ==
  /\ h \in DOMAIN handles
  /\ infos' = [infos EXCEPT ![handles[h].observerInfo].confirmedElements = @ \ {el}]
  /\ lastOp' = [NoOp EXCEPT !.kind = "unobserveElement", !.handle = h, !.el = el]
  /\ emitted' = <<>>
  /\ UNCHANGED <<observers, handles, dom, released, fresh>>

\* handle.unobserve(): observerInfo?.observer.disconnect();
\*                     observers.delete(observeElement)
UnobserveAll(h) ==
  /\ h \in DOMAIN handles
  /\ infos' = [infos EXCEPT ![handles[h].observerInfo].connected = FALSE]
  /\ observers' = [observers EXCEPT ![handles[h].observeElement] = 0]
  /\ released' = [released EXCEPT ![h] = TRUE]
  /\ fresh' = [k \in DOMAIN fresh |->
                 fresh[k] /\ handles[k].observeElement # handles[h].observeElement]
  /\ lastOp' = [NoOp EXCEPT !.kind = "unobserveAll", !.handle = h]
  /\ emitted' = <<>>
  /\ UNCHANGED <<handles, dom>>

\* Every operation of the helper, at most MaxHandles subscriptions.
NextObserver ==
  \/ \E rootOpt \in Roots \cup {Undefined}, autoOpt \in AutoUnobserveOptions :
       Len(handles) < MaxHandles /\ Subscribe(rootOpt, autoOpt) /\ UNCHANGED <<detVars, utilVars>>
  \/ \E root \in MutatedRoots, batch \in Batches :
       Mutate(root, batch) /\ UNCHANGED <<detVars, utilVars>>
  \/ \E id \in DOMAIN infos, el \in Elements :
       ConfirmLater(id, el) /\ UNCHANGED <<detVars, utilVars>>
  \/ \E h \in DOMAIN handles, el \in Elements :
       UnobserveElement(h, el) /\ UNCHANGED <<detVars, utilVars>>
  \/ \E h \in DOMAIN handles : UnobserveAll(h) /\ UNCHANGED <<detVars, utilVars>>

SpecObserver == InitObserver /\ [][NextObserver]_vars

\* The registry operations alone (no subtree ever changes), with one more
\* subscription: every behaviour of it is a behaviour of the helper.
NextRegistry ==
  \/ \E rootOpt \in Roots \cup {Undefined}, autoOpt \in AutoUnobserveOptions :
       /\ Len(handles) < MaxRegistryHandles
       /\ Subscribe(rootOpt, autoOpt)
       /\ UNCHANGED <<detVars, utilVars>>
  \/ \E h \in DOMAIN handles, el \in Elements :
       UnobserveElement(h, el) /\ UNCHANGED <<detVars, utilVars>>
  \/ \E h \in DOMAIN handles : UnobserveAll(h) /\ UNCHANGED <<detVars, utilVars>>

SpecRegistry == InitObserver /\ [][NextRegistry]_vars

\* The module of the other components is loaded and idle; the target has
\* any custom properties.
InitCustom ==
  /\ observers = [r \in Roots |-> 0]
  /\ infos = <<>>
  /\ handles = <<>>
  /\ dom = [r \in Roots |-> {}]
  /\ released = <<>>
  /\ fresh = <<>>
  /\ lastOp = NoOp
  /\ emitted = <<>>
  /\ details = [s \in Sections |->
                  [open |-> FALSE, visible |-> FALSE, singleton |-> FALSE,
                   isClosing |-> FALSE, isExpanding |-> FALSE,
                   animation |-> NoAnimation, siblings |-> {},
                   height |-> NoHeight, overflow |-> FALSE,
                   hasContent |-> TRUE, tables |-> <<>>,
                   beforeFrame |-> FALSE, request |-> "none"]]
  /\ running = [s \in Sections |-> <<>>]
  /\ cancels = [s \in Sections |-> <<>>]
  /\ frames = <<>>
  /\ timers = {}
  /\ armed = FALSE
  /\ thrown = "none"
  /\ notified = <<>>
  /\ style \in [Names -> StyleTexts]
  /\ custom = NoCall
  /\ fromNode = <<>>
  /\ toNode = NoClone.before
  /\ cloned = NoClone
  /\ managed = NoManaged
  /\ nativeCalls = <<>>
  /\ scroll = NoScroll

\* setCustomProperty(target, property, value)
SetCustomProperty(property, value) ==
  /\ style' = [style EXCEPT ![CssName(property)] = Trim(value)]
  /\ custom' = NoCall

\* removeCustomProperty(target, ...properties)
RemoveCustomProperty(properties) ==
  /\ style' = [n \in Names |->
                 IF \E i \in DOMAIN properties : CssName(properties[i]) = n
                 THEN EmptyText ELSE style[n]]
  /\ custom' = NoCall

\* getCustomProperty(target, ...properties)
GetCustomProperty(properties) ==
  /\ custom' = [made |-> TRUE, properties |-> properties,
                result |-> GetCustomPropertyOf(style, properties)]
  /\ UNCHANGED style

NextCustom ==
  \/ \E property \in NameArgs, value \in StyleTexts :
       SetCustomProperty(property, value) /\ UNCHANGED <<obsVars, detVars, cloneVars, managedVars, scrollVars>>
  \/ \E properties \in PropertyLists :
       (\A i \in DOMAIN properties : ~properties[i].isFlag)
         /\ RemoveCustomProperty(properties) /\ UNCHANGED <<obsVars, detVars, cloneVars, managedVars, scrollVars>>
  \/ \E properties \in PropertyLists :
       GetCustomProperty(properties) /\ UNCHANGED <<obsVars, detVars, cloneVars, managedVars, scrollVars>>

SpecCustom == InitCustom /\ [][NextCustom]_vars


\* ------------------------------------------------------ cloneAttributes
\* Two elements with any attributes; the other components are idle.
InitClone ==
  /\ observers = [r \in Roots |-> 0]
  /\ infos = <<>>
  /\ handles = <<>>
  /\ dom = [r \in Roots |-> {}]
  /\ released = <<>>
  /\ fresh = <<>>
  /\ lastOp = NoOp
  /\ emitted = <<>>
  /\ details = [s \in Sections |->
                  [open |-> FALSE, visible |-> FALSE, singleton |-> FALSE,
                   isClosing |-> FALSE, isExpanding |-> FALSE,
                   animation |-> NoAnimation, siblings |-> {},
                   height |-> NoHeight, overflow |-> FALSE,
                   hasContent |-> TRUE, tables |-> <<>>,
                   beforeFrame |-> FALSE, request |-> "none"]]
  /\ running = [s \in Sections |-> <<>>]
  /\ cancels = [s \in Sections |-> <<>>]
  /\ frames = <<>>
  /\ timers = {}
  /\ armed = FALSE
  /\ thrown = "none"
  /\ notified = <<>>
  /\ style = [n \in Names |-> EmptyText]
  /\ custom = NoCall
  /\ fromNode \in AttrLists
  /\ toNode \in ToNodes
  /\ cloned = NoClone
  /\ managed = NoManaged
  /\ nativeCalls = <<>>
  /\ scroll = NoScroll

\* cloneAttributes(fromNode, toNode, exclusions)
CloneAttributes(exclusions) ==
  LET st == CloneAttributesOf(fromNode, toNode, exclusions)
  IN /\ toNode' = st.to
     /\ cloned' = [made |-> TRUE, before |-> toNode, exclusions |-> exclusions,
                   thrown |-> st.thrown]
     /\ UNCHANGED fromNode

NextClone ==
  \E exclusions \in ExclusionInputs :
    CloneAttributes(exclusions)
      /\ UNCHANGED <<obsVars, detVars, customVars, managedVars, scrollVars>>

SpecClone == InitClone /\ [][NextClone]_vars


\* ----------------------------------------------------- managed observers
\* Both wrappers are constructed and observe nothing; the other components
\* are idle.
InitManaged ==
  /\ observers = [r \in Roots |-> 0]
  /\ infos = <<>>
  /\ handles = <<>>
  /\ dom = [r \in Roots |-> {}]
  /\ released = <<>>
  /\ fresh = <<>>
  /\ lastOp = NoOp
  /\ emitted = <<>>
  /\ details = [s \in Sections |->
                  [open |-> FALSE, visible |-> FALSE, singleton |-> FALSE,
                   isClosing |-> FALSE, isExpanding |-> FALSE,
                   animation |-> NoAnimation, siblings |-> {},
                   height |-> NoHeight, overflow |-> FALSE,
                   hasContent |-> TRUE, tables |-> <<>>,
                   beforeFrame |-> FALSE, request |-> "none"]]
  /\ running = [s \in Sections |-> <<>>]
  /\ cancels = [s \in Sections |-> <<>>]
  /\ frames = <<>>
  /\ timers = {}
  /\ armed = FALSE
  /\ thrown = "none"
  /\ notified = <<>>
  /\ style = [n \in Names |-> EmptyText]
  /\ custom = NoCall
  /\ fromNode = <<>>
  /\ toNode = NoClone.before
  /\ cloned = NoClone
  /\ managed = NoManaged
  /\ nativeCalls = <<>>
  /\ scroll = NoScroll

\* An operation on the ManagedResizeObserver that leaves it as st says.
ResizeStep(st) ==
  /\ managed' = [managed EXCEPT !.resize = st.w]
  /\ nativeCalls' = st.calls

\* An operation on the ManagedMutationObserver that leaves it as st says.
MutationStep(st) ==
  /\ managed' = [managed EXCEPT !.mutation = st.w]
  /\ nativeCalls' = st.calls

ResizeObserve(element) == ResizeStep(ResizeObserveOf(managed.resize, element))
ResizeUnobserve(element) == ResizeStep(ResizeUnobserveOf(managed.resize, element))
ResizeDisconnect == ResizeStep(ResizeDisconnectOf(managed.resize))
MutationObserve(element) == MutationStep(MutationObserveOf(managed.mutation, element))
MutationUnobserve(element) == MutationStep(MutationUnobserveOf(managed.mutation, element))
MutationDisconnect == MutationStep(MutationDisconnectOf(managed.mutation))

NextManaged ==
  \/ \E e \in Targets : ResizeObserve(e)
       /\ UNCHANGED <<obsVars, detVars, customVars, cloneVars, scrollVars>>
  \/ \E e \in Targets : ResizeUnobserve(e)
       /\ UNCHANGED <<obsVars, detVars, customVars, cloneVars, scrollVars>>
  \/ ResizeDisconnect
       /\ UNCHANGED <<obsVars, detVars, customVars, cloneVars, scrollVars>>
  \/ \E e \in Targets : MutationObserve(e)
       /\ UNCHANGED <<obsVars, detVars, customVars, cloneVars, scrollVars>>
  \/ \E e \in Targets : MutationUnobserve(e)
       /\ UNCHANGED <<obsVars, detVars, customVars, cloneVars, scrollVars>>
  \/ MutationDisconnect
       /\ UNCHANGED <<obsVars, detVars, customVars, cloneVars, scrollVars>>

SpecManaged == InitManaged /\ [][NextManaged]_vars


\* -------------------------------------------------------------- Scroll.to
\* No Scroll.to call was made; the other components are idle.
InitScroll ==
  /\ observers = [r \in Roots |-> 0]
  /\ infos = <<>>
  /\ handles = <<>>
  /\ dom = [r \in Roots |-> {}]
  /\ released = <<>>
  /\ fresh = <<>>
  /\ lastOp = NoOp
  /\ emitted = <<>>
  /\ details = [s \in Sections |->
                  [open |-> FALSE, visible |-> FALSE, singleton |-> FALSE,
                   isClosing |-> FALSE, isExpanding |-> FALSE,
                   animation |-> NoAnimation, siblings |-> {},
                   height |-> NoHeight, overflow |-> FALSE,
                   hasContent |-> TRUE, tables |-> <<>>,
                   beforeFrame |-> FALSE, request |-> "none"]]
  /\ running = [s \in Sections |-> <<>>]
  /\ cancels = [s \in Sections |-> <<>>]
  /\ frames = <<>>
  /\ timers = {}
  /\ armed = FALSE
  /\ thrown = "none"
  /\ notified = <<>>
  /\ style = [n \in Names |-> EmptyText]
  /\ custom = NoCall
  /\ fromNode = <<>>
  /\ toNode = NoClone.before
  /\ cloned = NoClone
  /\ managed = NoManaged
  /\ nativeCalls = <<>>
  /\ scroll = NoScroll

\* Scroll.to(target, options), called when no earlier call still runs.
ScrollTo(target, durationOption, hasCallback, hasContainer) ==
  /\ ~scroll.timer
  /\ scroll' = ScrollToOf(target, durationOption, hasCallback, hasContainer)

\* The setTimeout(animateScroll, increment) of the call fires.
AnimateScrollTimer ==
  /\ scroll.timer
  /\ scroll' = AnimateScroll(scroll)

NextScroll ==
  \/ \E target \in BOOLEAN, durationOption \in DurationOptions,
        hasCallback \in BOOLEAN, hasContainer \in BOOLEAN :
       ScrollTo(target, durationOption, hasCallback, hasContainer)
         /\ UNCHANGED <<obsVars, detVars, customVars, cloneVars, managedVars>>
  \/ AnimateScrollTimer
       /\ UNCHANGED <<obsVars, detVars, customVars, cloneVars, managedVars>>

SpecScroll == InitScroll /\ [][NextScroll]_vars

\* A timer that was set fires.
SpecScrollFair == SpecScroll /\ WF_scrollVars(AnimateScrollTimer)


\* ------------------------------------------------- what the claims speak of
\* How many events of `type` for `el` the observer `id` dispatched in evts.
CountEvents(evts, type, el, id) ==
  Cardinality({n \in DOMAIN evts : /\ evts[n].type = type
                                   /\ evts[n].element = el
                                   /\ evts[n].by = id})

AddRecord(el, reaction) == [type |-> "add", node |-> el, reaction |-> reaction]
RemoveRecord(el) == [type |-> "remove", node |-> el, reaction |-> "ignore"]

\* The records of batch before position k that decide whether el is
\* confirmed at k: a removal of el, or an addition of el the filter confirms
\* at once.
Deciding(el, batch, k) ==
  {j \in 1..(k - 1) : batch[j] \in {RemoveRecord(el), AddRecord(el, "sync")}}

Latest(S) == CHOOSE j \in S : \A i \in S : i <= j

\* Whether el is confirmed for observer id when record k of batch arrives:
\* as the latest deciding record left it, or as it was before the batch.
ConfirmedAt(id, el, batch, k) ==
  IF Deciding(el, batch, k) = {}
  THEN el \in infos[id].confirmedElements
  ELSE batch[Latest(Deciding(el, batch, k))].type = "add"

\* The batches that can happen to `root` now.
Possible(root) == {batch \in Batches : CanHappen(dom[root], batch)}

\* -------------------------------------------------------------------- C1
\* C1: at most one connected native mutation watcher exists for any root.
C1_AtMostOneConnectedWatcher ==
  \A root \in Roots : Cardinality(Receivers(root)) <= 1

\* -------------------------------------------------------------------- C2
\* C2: a subscribe to a root that some earlier handle subscribed to, with no
\* unobserve() on that root since, creates no ObserverInfo (starts no
\* watcher), leaves the registry as it is, and hands out the ObserverInfo of
\* that earlier handle, which is the registry entry of the root.
C2_SecondSubscribeReusesEntry ==
  [][lastOp'.kind = "subscribe" =>
       LET h == lastOp'.handle
           root == handles'[h].observeElement
           earlier == {k \in DOMAIN handles :
                         handles[k].observeElement = root /\ fresh[k]}
       IN earlier # {} =>
            /\ Len(infos') = Len(infos)
            /\ observers' = observers
            /\ \A k \in earlier :
                 /\ handles'[h].observerInfo = handles[k].observerInfo
                 /\ observers[root] = handles[k].observerInfo]_vars

C2_Witness ==
  /\ lastOp.kind = "subscribe"
  /\ Len(handles) = 2
  /\ handles[1].observeElement = handles[2].observeElement
  /\ fresh[1]
  /\ handles[1].observerInfo = handles[2].observerInfo
  /\ Len(infos) = 1

\* -------------------------------------------------------------------- C3
\* C3: the watcher of an ObserverInfo is connected as long as some handle
\* that has not called unobserve() references it.
C3_ConnectedWhileReferenced ==
  \A id \in DOMAIN infos :
    (\E h \in DOMAIN handles : handles[h].observerInfo = id /\ ~released[h])
      => infos[id].connected

\* -------------------------------------------------------------------- C4
\* C4: the `added` events an observer dispatches for an element are exactly
\* the confirmations of its filter: in a batch, one per added record of the
\* element that reaches the filter (the element is not confirmed yet) and
\* that the filter confirms at once, none for a record the filter leaves
\* unconfirmed; one for a confirmation made later; none anywhere else.
C4_AddedOnlyWhenConfirmed ==
  /\ \A root \in MutatedRoots : \A batch \in Possible(root) :
       LET events == Delivered(root, batch).events
       IN \A id \in DOMAIN infos : \A el \in Elements :
            CountEvents(events, "added", el, id)
              = Cardinality({k \in DOMAIN batch :
                               /\ id \in Receivers(root)
                               /\ batch[k] = AddRecord(el, "sync")
                               /\ ~ConfirmedAt(id, el, batch, k)})
  /\ lastOp.kind = "confirm" =>
       /\ Len(emitted) = 1
       /\ emitted[1].type = "added"
       /\ emitted[1].element \in infos[emitted[1].by].confirmedElements
  /\ lastOp.kind \notin {"confirm", "mutate"} => emitted = <<>>

\* A batch has just added an element the filter confirmed, and exactly one
\* `added` event carries it.
C4_Witness ==
  /\ lastOp.kind = "mutate"
  /\ \E id \in DOMAIN infos : \E el \in Elements :
       /\ CountEvents(emitted, "added", el, id) = 1
       /\ el \in infos[id].confirmedElements
       /\ \E other \in Elements \ {el} :
            /\ other \in dom[infos[id].root]
            /\ CountEvents(emitted, "added", other, id) = 0

\* -------------------------------------------------------------------- C5
\* C5: an observer dispatches one `deleted` event for each removal record of
\* an element that is confirmed when the record arrives, and none for a
\* removal record of an element that is not; the removal takes the element
\* out of the confirmed set, and a confirmation (in the batch or later) puts
\* it back, so that the next removal record is reported again.
C5_DeletedOncePerConfirmation ==
  /\ \A root \in MutatedRoots : \A batch \in Possible(root) :
       LET res == Delivered(root, batch)
       IN \A id \in DOMAIN infos : \A el \in Elements :
            /\ CountEvents(res.events, "deleted", el, id)
                 = Cardinality({k \in DOMAIN batch :
                                  /\ id \in Receivers(root)
                                  /\ batch[k] = RemoveRecord(el)
                                  /\ ConfirmedAt(id, el, batch, k)})
            /\ id \in Receivers(root) =>
                 (el \in res.infos[id].confirmedElements
                    <=> ConfirmedAt(id, el, batch, Len(batch) + 1))
  /\ lastOp.kind = "confirm" =>
       \A n \in DOMAIN emitted :
         emitted[n].element \in infos[emitted[n].by].confirmedElements
  /\ lastOp.kind # "mutate" =>
       \A n \in DOMAIN emitted : emitted[n].type # "deleted"

\* A batch removed a confirmed element and added it again, the filter
\* confirming it: one `deleted` event, and the element is confirmed again.
C5_Witness ==
  /\ lastOp.kind = "mutate"
  /\ \E id \in DOMAIN infos : \E el \in Elements :
       /\ Len(emitted) = 2
       /\ emitted[1].type = "deleted" /\ emitted[1].element = el /\ emitted[1].by = id
       /\ emitted[2].type = "added" /\ emitted[2].element = el /\ emitted[2].by = id
       /\ el \in infos[id].confirmedElements

\* -------------------------------------------------------------------- C6
\* C6: when a batch of a root arrives, every subscriber of that root that
\* still observes gets each added element of the batch passed to its filter
\* callback, and nothing but elements is ever passed to a filter callback.
\* (Delivered(...).calls lists the callback invocations of the batch.)
C6_EverySubscriberIsOffered ==
  \A root \in Roots : \A batch \in Possible(root) :
    LET calls == Delivered(root, batch).calls
    IN /\ \A h \in DOMAIN handles :
            (/\ handles[h].observeElement = root
             /\ ~released[h]
             /\ handles[h].observerInfo \in Receivers(root))
              => \A k \in DOMAIN batch :
                   (batch[k].type = "add" /\ IsElement(batch[k].node))
                     => \E n \in DOMAIN calls :
                          calls[n] = [handle |-> h, element |-> batch[k].node]
       /\ \A n \in DOMAIN calls : IsElement(calls[n].element)

C8_AutoUnobserveDefaultsToTrue ==
  (lastOp.kind = "subscribe" /\ lastOp.given = Undefined)
    => handles[lastOp.handle].autoUnobserve

\* -------------------------------------------------------------------- C9
\* C9: handle.unobserve(element) takes exactly that element out of the
\* confirmed set of the handle's ObserverInfo and changes nothing else: every
\* watcher stays as connected as it was, the registry and the handles are
\* unchanged, every other confirmed element stays, no event is dispatched;
\* on an element that is not confirmed it changes nothing at all.
C9_UnobserveElementFrame ==
  [][lastOp'.kind = "unobserveElement" =>
       LET h == lastOp'.handle
           el == lastOp'.el
           id == handles[h].observerInfo
       IN /\ h \in DOMAIN handles
          /\ infos' = [infos EXCEPT ![id].confirmedElements = @ \ {el}]
          /\ el \notin infos[id].confirmedElements => infos' = infos
          /\ observers' = observers
          /\ handles' = handles
          /\ dom' = dom
          /\ released' = released
          /\ emitted' = <<>>]_vars

\* unobserve(element) has just removed a confirmed element while another
\* element stays confirmed under a connected, registered watcher.
C9_Witness ==
  /\ lastOp.kind = "unobserveElement"
  /\ LET id == handles[lastOp.handle].observerInfo
     IN /\ lastOp.el \notin infos[id].confirmedElements
        /\ lastOp.el \in dom[infos[id].root]
        /\ infos[id].confirmedElements # {}
        /\ infos[id].connected
        /\ observers[infos[id].root] = id

\* ------------------------------------------------------------------- C10
SpecDetails == InitDetails /\ [][NextDetails]_vars

\* Nothing of the sibling group is in flight: no animation plays, no frame
\* callback and no cancel event waits.
Settled ==
  /\ frames = <<>>
  /\ \A s \in Sections :
       /\ running[s] = <<>>
       /\ cancels[s] = <<>>
       /\ details[s].animation = NoAnimation

\* C10: in a group whose sections all carry the singleton marker, once a
\* section has been activated while a sibling was open and everything has
\* settled, at most one section is open.
C10_SingletonAtSettle ==
  ((\A s \in Sections : details[s].singleton) /\ armed /\ Settled)
    => Cardinality({s \in Sections : details[s].open}) <= 1

\* ------------------------------------------------------------------- C11
\* C11: at every moment at most one animation of a section plays: whatever
\* clicks, el.expand and el.shrink calls (the calls its siblings make
\* included), frames, finishes and cancel events came before.
C11_OneAnimationInFlight ==
  \A s \in Sections : Len(running[s]) <= 1

\* A new animation plays after the one before it was cancelled in flight:
\* its cancel event still waits.
C11_Witness ==
  /\ Len(running[Focus]) = 1
  /\ Playing(World, Focus)
  /\ cancels[Focus] # <<>>
  /\ Head(cancels[Focus]) # details[Focus].animation.kind

\* ------------------------------------------------------------------- C12
\* C12: when an animation of a section finishes, the section is left open
\* and visible if the animation was an opening, closed and not visible if
\* it was a closing, and either way without an animation handle, with
\* isClosing and isExpanding false and without inline height and overflow.
C12_FinishSettlesSection ==
  [][\A i \in DOMAIN running[Focus] :
       AnimationFinish(Focus, i) =>
         LET opening == running[Focus][i].kind = "expanding"
             d == details'[Focus]
         IN /\ d.open = opening
            /\ d.visible = opening
            /\ d.animation = NoAnimation
            /\ ~d.isClosing
            /\ ~d.isExpanding
            /\ d.height = NoHeight
            /\ ~d.overflow]_vars

\* ------------------------------------------------------------------- C13
\* C13: every expand animation ends at header height plus body height and
\* every shrink animation at the header height, over 300 time units or, when
\* instant, over 0; and a section that shows its opening animation finished
\* (visible) is open.
C13_AnimationGeometry ==
  \A s \in Sections :
    /\ \A i \in DOMAIN running[s] :
         LET a == running[s][i]
         IN /\ a.kind = "expanding" => a.to = HeaderHeight + BodyHeight
            /\ a.kind = "closing" => a.to = HeaderHeight
            /\ a.duration \in {0, Duration}
    /\ details[s].visible => details[s].open

\* ------------------------------------------------------------------- C14
\* C14: no activation of a section throws: neither the click, el.expand or
\* el.shrink call itself nor the expand it defers to the next animation
\* frame, with or without a transition in flight, with or without a content
\* element.
C14_ActivationNeverThrows ==
  thrown # "expand"

\* ------------------------------------------------------------------- C15
\* C15: getCustomProperty called with one property name (with or without
\* `true`) returns the converted value of that custom property, and called
\* with several names it returns an object that maps each name, as given,
\* to the converted value of its property.
C15_GetReturnsValues ==
  custom.made =>
    LET names == PropertyNames(custom.properties)
        parse == \E i \in DOMAIN custom.properties : custom.properties[i].isFlag
        result == custom.result
    IN /\ Len(names) = 1 =>
            /\ ~result.isObject
            /\ result.value = ReadProperty(style, names[1], parse)
       /\ Len(names) > 1 =>
            /\ result.isObject
            /\ DOMAIN result.entries = {names[i] : i \in DOMAIN names}
            /\ \A i \in DOMAIN names :
                 result.entries[names[i]] = ReadProperty(style, names[i], parse)

\* ------------------------------------------------------------------- C16
\* C16: after cloneAttributes(from, to, exclusions), every attribute of from
\* that is neither excluded nor `class` has its value on to; the class list
\* of to is its class list of before together with the classes of from
\* (unless `class` is excluded, or from has no class attribute: then it is
\* as before); and every attribute of to that is excluded or that from does
\* not have is as before.
C16_CloneCopiesAndMerges ==
  cloned.made =>
    LET excluded == cloned.exclusions.names
        has(n) == \E i \in DOMAIN fromNode : fromNode[i].name = n
        classes == UNION {{fromNode[i].tokens[k] : k \in DOMAIN fromNode[i].tokens} :
                            i \in DOMAIN fromNode} \ {""}
    IN /\ \A i \in DOMAIN fromNode :
            (fromNode[i].name \notin excluded /\ fromNode[i].name # "class")
              => toNode.attrs[fromNode[i].name] = fromNode[i].value
       /\ toNode.classes = IF "class" \in excluded \/ ~has("class")
                           THEN cloned.before.classes
                           ELSE cloned.before.classes \cup classes
       /\ \A n \in PlainNames :
            (n \in excluded \/ ~has(n)) => toNode.attrs[n] = cloned.before.attrs[n]

\* ------------------------------------------------------------------- C17
\* The elements of a Set.
Elems(set) == {set[i] : i \in DOMAIN set}

\* C17: for both wrappers, before and after every observe, unobserve and
\* disconnect call the native observer observes exactly the tracked
\* elements; observe of a tracked element makes no native call and changes
\* nothing; unobserve(e) takes e and nothing else out of what is observed;
\* disconnect leaves nothing observed.
C17_NativeMatchesTracked ==
  [][/\ managed.resize.native = Elems(managed.resize.observedElements)
     /\ managed.mutation.native = Elems(managed.mutation.observedElements)
     /\ managed'.resize.native = Elems(managed'.resize.observedElements)
     /\ managed'.mutation.native = Elems(managed'.mutation.observedElements)
     /\ \A e \in Targets :
          /\ (ResizeObserve(e) /\ e \in managed.resize.native)
               => (nativeCalls' = <<>> /\ managed' = managed)
          /\ (MutationObserve(e) /\ e \in managed.mutation.native)
               => (nativeCalls' = <<>> /\ managed' = managed)
          /\ ResizeObserve(e)
               => managed'.resize.native = managed.resize.native \cup {e}
          /\ MutationObserve(e)
               => managed'.mutation.native = managed.mutation.native \cup {e}
          /\ ResizeUnobserve(e)
               => managed'.resize.native = managed.resize.native \ {e}
          /\ MutationUnobserve(e)
               => managed'.mutation.native = managed.mutation.native \ {e}
     /\ ResizeDisconnect => managed'.resize.native = {}
     /\ MutationDisconnect => managed'.mutation.native = {}]_vars

\* unobserve(e) on the ManagedMutationObserver has just disconnected the
\* native observer and observed the two remaining nodes again, while the
\* ManagedResizeObserver observes something too.
C17_Witness ==
  /\ Len(nativeCalls) = 3
  /\ nativeCalls[1].method = "disconnect"
  /\ nativeCalls[2].method = "observe"
  /\ nativeCalls[3].method = "observe"
  /\ managed.mutation.native = {nativeCalls[2].element, nativeCalls[3].element}
  /\ Len(managed.mutation.observedElements) = 2
  /\ managed.resize.native # {}

\* The state of a Scroll.to call is as the steps taken so far leave it: a
\* call with a null target wrote nothing, called nothing and set no timer; a
\* call with a target either waits for its timer or has stopped; it stops at
\* the first multiple of the increment that reaches the duration, and then
\* the callback, when given, was called once, after the write of that step.
ScrollCallSettled ==
  /\ scroll.called /\ ~scroll.target =>
       /\ scroll.writes = 0
       /\ scroll.callbacks = 0
       /\ ~scroll.timer
       /\ ~scroll.resolved
  /\ scroll.called /\ scroll.target =>
       /\ scroll.timer # scroll.resolved
       /\ scroll.currentTime % Increment = 0
       /\ scroll.currentTime >= Increment
       /\ scroll.writes =
            (IF scroll.hasContainer THEN scroll.currentTime \div Increment ELSE 0)
       /\ scroll.hasContainer =>
            scroll.scrollTop = EaseInOutQuad(scroll.currentTime, scroll.duration)
       /\ scroll.timer =>
            /\ scroll.currentTime < scroll.duration
            /\ scroll.callbacks = 0
       /\ scroll.resolved =>
            /\ scroll.currentTime >= scroll.duration
            /\ scroll.currentTime < scroll.duration + Increment
                 \/ scroll.currentTime = Increment
            /\ scroll.callbacks = (IF scroll.hasCallback THEN 1 ELSE 0)

InFlight(s, kind) ==
  /\ Playing(World, s)
  /\ details[s].animation.kind = kind
  /\ details[s].animation.duration = Duration

\* C19: a header click while a closing transition is in flight starts an
\* opening (open is set and expand is requested for the next frame), and a
\* header click while an opening transition is in flight starts a closing,
\* the opening animation being cancelled first; whatever clicks, expand and
\* shrink calls came before.
C19_ClickReverses ==
  [][Click(Focus) =>
       /\ InFlight(Focus, "closing") =>
            /\ details'[Focus].open
            /\ frames' = Append(frames, [section |-> Focus, instant |-> FALSE])
            /\ details'[Focus].animation = details[Focus].animation
       /\ InFlight(Focus, "expanding") =>
            /\ details'[Focus].animation.kind = "closing"
            /\ running'[Focus] = <<details'[Focus].animation>>
            /\ cancels'[Focus] = Append(cancels[Focus], "expanding")
            /\ frames' = frames]_vars

\* C20: when an opening animation finishes, every table-container under the
\* content of the section is asked once, in document order, to update its
\* metrics, and the section becomes Open (open and visible set, animation
\* handle cleared) whether or not a table-container can be asked; when a
\* closing animation finishes no table-container is asked.
C20_TablesNotifiedOnOpen ==
  [][\A i \in DOMAIN running[Focus] :
       AnimationFinish(Focus, i) =>
         IF running[Focus][i].kind = "expanding"
         THEN /\ notified' = [k \in DOMAIN details[Focus].tables |->
                                [section |-> Focus, table |-> k]]
              /\ details'[Focus].open
              /\ details'[Focus].visible
              /\ details'[Focus].animation = NoAnimation
         ELSE notified' = <<>>]_vars

\* C21: at every moment isClosing is true exactly when the animation in
\* flight of the section is a closing one, isExpanding exactly when it is
\* an opening one, and the two flags are never both true; also when shrink
\* is started during a shrink or expand during an expand, and whenever the
\* cancel event of the superseded animation is dispatched.
C21_FlagsMatchAnimation ==
  \A s \in Sections :
    /\ details[s].isClosing =
         (Playing(World, s) /\ details[s].animation.kind = "closing")
    /\ details[s].isExpanding =
         (Playing(World, s) /\ details[s].animation.kind = "expanding")
    /\ ~(details[s].isClosing /\ details[s].isExpanding)

\* Nothing of section s is in flight: no animation of it plays, no frame
\* callback and no cancel event of it waits.
AtRest(s) ==
  /\ running[s] = <<>>
  /\ cancels[s] = <<>>
  /\ \A k \in DOMAIN frames : frames[k].section # s

\* Section s has a content element and every table-container under it can be
\* asked to update its metrics.
WellFormed(s) ==
  /\ details[s].hasContent
  /\ \A k \in DOMAIN details[s].tables : details[s].tables[k]

\* C22: a well-formed section that was asked to open or to close and has
\* nothing in flight any more is in the state its most recent request asked
\* for: Open (open and visible) after open or expand, Closed (neither) after
\* shrink, also when the shrink came between open() and the animation frame
\* that runs expand().
C22_SettlesAsRequested ==
  \A s \in Sections :
    (WellFormed(s) /\ AtRest(s) /\ details[s].request # "none") =>
      /\ details[s].open = (details[s].request = "open")
      /\ details[s].visible = (details[s].request = "open")
      /\ details[s].animation = NoAnimation

\* The entry of root was torn down by unobserve() and the root was not
\* subscribed again.
TornDown(root) ==
  /\ observers[root] = 0
  /\ \E id \in DOMAIN infos : infos[id].root = root

\* C23: after unobserve() without argument has torn down the entry of a
\* root, and until the root is subscribed again, no step dispatches an
\* 'added' or 'deleted' event on that root and no element enters a confirmed
\* set of that root; also when a filter callback that was offered an element
\* before the teardown calls confirm after it.
C23_SilentAfterTeardown ==
  [][\A root \in Roots :
       TornDown(root) =>
         /\ \A k \in DOMAIN emitted' : emitted'[k].target # root
         /\ \A id \in DOMAIN infos :
              infos[id].root = root =>
                infos'[id].confirmedElements \subseteq infos[id].confirmedElements]_vars

====
